---- MODULE Spec2Model ----
(***************************************************************************)
(* Model of the invoice-processing API: the batch-start endpoint           *)
(* (routers/docint.py, start_invoice_batch), the spreadsheet export        *)
(* (routers/docint.py, export_invoices_to_excel), the field accessors it   *)
(* uses, and the PDF upload endpoint (routers/upload.py, upload_invoice).  *)
(*                                                                         *)
(* Python strings that the code inspects character by character are        *)
(* sequences of one-character strings; strings that are only compared or   *)
(* tested for emptiness are TLA+ strings.                                  *)
(***************************************************************************)
EXTENDS Integers, Sequences, FiniteSets, TLC

VARIABLES
    env,        \* process environment (os.getenv), fixed for a run
    req,        \* the batch-start request being served
    bpc,        \* position of start_invoice_batch: idle / awaiting / done
    posts,      \* outbound POSTs issued by the current batch-start call
    res,        \* what client.post returned to the current call
    reply,      \* the HTTP reply of the current batch-start call
    container,  \* result container: blobs in enumeration order
    xreply,     \* the reply of the last export call
    store,      \* upload container: blob name -> stored bytes
    clock,      \* datetime.utcnow(): an index into Timestamps
    upc,        \* position of upload_invoice: idle / replied
    lastUpload, \* the last upload request that reached the blob store
    ureply,     \* the reply of the last upload call
    acc         \* the last field-accessor call: function, argument, result

vars == <<env, req, bpc, posts, res, reply, container, xreply,
          store, clock, upc, lastUpload, ureply, acc>>

batchVars == <<env, req, bpc, posts, res, reply>>
exportVars == <<container, xreply>>
uploadVars == <<store, clock, upc, lastUpload, ureply>>

(***************************************************************************)
(* Bounds of the model.                                                    *)
(***************************************************************************)
MaxUrlLen == 4      \* operation-location headers: every string up to this length
MaxExtra == 1       \* response bodies up to this many characters over the excerpt
MaxBlobs == 2       \* result blobs in the container
MaxUploads == 2     \* blobs the upload container can hold
MaxB64Len == 4      \* contentBase64 payloads: every string up to this length

(***************************************************************************)
(* Character-level string helpers (str methods of Python).                 *)
(***************************************************************************)
Min(S) == CHOOSE x \in S : \A y \in S : x <= y
Max(S) == CHOOSE x \in S : \A y \in S : x >= y

SeqsUpTo(A, n) == UNION {[1..k -> A] : k \in 0..n}

\* s.find(c, start) with 1-based positions; 0 when absent
Find(s, c, start) ==
    LET I == {i \in start..Len(s) : s[i] = c}
    IN  IF I = {} THEN 0 ELSE Min(I)

\* c in s
Contains(s, c) == \E i \in 1..Len(s) : s[i] = c

\* s.rstrip(chars)
RStrip(s, chars) ==
    SubSeq(s, 1, Max({0} \cup {i \in 1..Len(s) : s[i] \notin chars}))

\* s.lstrip(chars)
LStrip(s, chars) ==
    LET K == {i \in 1..Len(s) : s[i] \notin chars}
    IN  IF K = {} THEN <<>> ELSE SubSeq(s, Min(K), Len(s))

\* s.split(c)[-1]
LastPiece(s, c) ==
    SubSeq(s, Max({0} \cup {i \in 1..Len(s) : s[i] = c}) + 1, Len(s))

LowerLetters == {"a", "b", "c", "d", "e", "f", "g", "h", "i", "j", "k", "l", "m",
                 "n", "o", "p", "q", "r", "s", "t", "u", "v", "w", "x", "y", "z"}
UpperLetters == {"A", "B", "C", "D", "E", "F", "G", "H", "I", "J", "K", "L", "M",
                 "N", "O", "P", "Q", "R", "S", "T", "U", "V", "W", "X", "Y", "Z"}
Letters == LowerLetters \cup UpperLetters
Digits == {"0", "1", "2", "3", "4", "5", "6", "7", "8", "9"}

LowerPairs == {<<"A", "a">>, <<"B", "b">>, <<"C", "c">>, <<"D", "d">>, <<"E", "e">>,
               <<"F", "f">>, <<"G", "g">>, <<"H", "h">>, <<"I", "i">>, <<"J", "j">>,
               <<"K", "k">>, <<"L", "l">>, <<"M", "m">>, <<"N", "n">>, <<"O", "o">>,
               <<"P", "p">>, <<"Q", "q">>, <<"R", "r">>, <<"S", "s">>, <<"T", "t">>,
               <<"U", "u">>, <<"V", "v">>, <<"W", "w">>, <<"X", "x">>, <<"Y", "y">>,
               <<"Z", "z">>}
LowerChar(c) ==
    IF c \in UpperLetters THEN (CHOOSE p \in LowerPairs : p[1] = c)[2] ELSE c

\* s.lower()
Lower(s) == [i \in 1..Len(s) |-> LowerChar(s[i])]

(***************************************************************************)
(* urllib.parse.urlparse, as extract_result_id uses it.  The inputs of the *)
(* model never hold "]", a tab or a newline, so the bracketed-host check   *)
(* and the removal of tab/newline characters have nothing to act on.       *)
(***************************************************************************)
SchemeChars == Letters \cup Digits \cup {"+", "-", "."}

UsesParams ==
    { <<>>, <<"f","t","p">>, <<"h","d","l">>,
      <<"p","r","o","s","p","e","r","o">>, <<"h","t","t","p">>,
      <<"i","m","a","p">>, <<"h","t","t","p","s">>, <<"s","h","t","t","p">>,
      <<"r","t","s","p">>, <<"r","t","s","p","u">>, <<"s","i","p">>,
      <<"s","i","p","s">>, <<"m","m","s">>, <<"s","f","t","p">>, <<"t","e","l">> }

\* urlsplit: "<scheme>:" is split off when the text before the first colon is a
\* letter followed by scheme characters
SplitScheme(url) ==
    LET i == Find(url, ":", 1)
    IN  IF i > 1 /\ url[1] \in Letters /\ \A k \in 1..(i - 1) : url[k] \in SchemeChars
        THEN [scheme |-> Lower(SubSeq(url, 1, i - 1)),
              rest |-> SubSeq(url, i + 1, Len(url))]
        ELSE [scheme |-> <<>>, rest |-> url]

\* _splitnetloc(url, 2): the netloc runs from after "//" to the first of / ? #
SplitNetloc(url) ==
    LET D == {i \in 3..Len(url) : url[i] \in {"/", "?", "#"}}
        delim == IF D = {} THEN Len(url) + 1 ELSE Min(D)
    IN  [netloc |-> SubSeq(url, 3, delim - 1), rest |-> SubSeq(url, delim, Len(url))]

\* urlsplit: raised is the ValueError("Invalid IPv6 URL") of an unmatched bracket
UrlSplit(url0) ==
    LET url == LStrip(url0, {" "})
        s == SplitScheme(url)
        hasNet == Len(s.rest) >= 2 /\ s.rest[1] = "/" /\ s.rest[2] = "/"
        n == IF hasNet THEN SplitNetloc(s.rest) ELSE [netloc |-> <<>>, rest |-> s.rest]
        f == Find(n.rest, "#", 1)
        u1 == IF f > 0 THEN SubSeq(n.rest, 1, f - 1) ELSE n.rest
        q == Find(u1, "?", 1)
        u2 == IF q > 0 THEN SubSeq(u1, 1, q - 1) ELSE u1
    IN  [raised |-> hasNet /\ (Contains(n.netloc, "[") # Contains(n.netloc, "]")),
         scheme |-> s.scheme, netloc |-> n.netloc, path |-> u2]

\* _splitparams: ";params" is cut from the last path segment
SplitParams(p) ==
    LET slash == Max({0} \cup {i \in 1..Len(p) : p[i] = "/"})
        i == Find(p, ";", IF slash = 0 THEN 1 ELSE slash)
    IN  IF i = 0 THEN p ELSE SubSeq(p, 1, i - 1)

\* urlparse(url).path
UrlPath(url) ==
    LET sp == UrlSplit(url)
    IN  IF sp.scheme \in UsesParams /\ Contains(sp.path, ";")
        THEN SplitParams(sp.path)
        ELSE sp.path

\* extract_result_id without rstrip("/"): the segment after the last slash as is
extract_result_id_no_rstrip(operation_location) ==
    IF UrlSplit(operation_location).raised
    THEN <<>>
    ELSE LastPiece(UrlPath(operation_location), "/")

\* extract_result_id: the bare except turns a raising urlparse into ""
extract_result_id(operation_location) ==
    IF UrlSplit(operation_location).raised
    THEN <<>>
    ELSE LastPiece(RStrip(UrlPath(operation_location), {"/"}), "/")

(***************************************************************************)
(* start_invoice_batch                                                     *)
(***************************************************************************)
ExcerptLen == 500

\* get_container_url
get_container_url(account, cont) == <<"https://", account, ".blob.core.windows.net/", cont>>

\* bytes.decode("utf-8", "ignore"): the invalid byte "FF" is dropped
Utf8DecodeIgnore(bytes) == SelectSeq(bytes, LAMBDA b : b # "FF")

\* the decoded body without the [:500] cut
ErrorExcerptUncut(body) == Utf8DecodeIgnore(body)

\* detail.decode("utf-8", "ignore")[:500]
ErrorExcerpt(body) ==
    LET text == Utf8DecodeIgnore(body)
    IN  SubSeq(text, 1, IF Len(text) < ExcerptLen THEN Len(text) ELSE ExcerptLen)

\* characters outside ASCII that a header or a setting can hold
NonAscii == {"U+00E1", "U+00E9", "U+20AC"}

IsAscii(s) == \A i \in 1..Len(s) : s[i] \notin NonAscii

\* secrets.compare_digest(a, b) on str: a TypeError when either holds a
\* character outside ASCII, else equality
compare_digest(a, b) ==
    IF ~IsAscii(a) \/ ~IsAscii(b) THEN "TypeError"
    ELSE IF a = b THEN "True" ELSE "False"

\* require_flow_secret: "pass" when it returns, else what it raises:
\* "config" is HTTPException(500), "unauthorized" is HTTPException(401) and
\* "exception" is the TypeError of compare_digest, which nothing catches
require_flow_secret(e, r) ==
    IF e.FLOW_SHARED_SECRET = <<>> THEN "config"
    ELSE IF r.secret = <<>> THEN "unauthorized"
    ELSE LET same == compare_digest(r.secret, e.FLOW_SHARED_SECRET)
         IN  IF same = "TypeError" THEN "exception"
             ELSE IF same = "False" THEN "unauthorized"
             ELSE "pass"

\* os.getenv(name) or default
OrDefault(v, default) == IF v = "" THEN default ELSE v

ConfEndpoint(e) == RStrip(e.DOCINT_ENDPOINT, {"/"})
SourceContainer(e) == OrDefault(e.AZURE_STORAGE_SOURCE_CONTAINER, "invoicebatch")
ResultContainer(e) == OrDefault(e.AZURE_STORAGE_RESULT_CONTAINER, "invoicebatch-result")

\* the settings check of start_invoice_batch
ConfigMissing(e) ==
    ConfEndpoint(e) = <<>> \/ e.DOCINT_KEY = "" \/ e.AZURE_STORAGE_ACCOUNT_NAME = ""

\* the request body sent to the extraction service: no prefix entry is ever added
DocIntBody(e) ==
    [containerUrl |-> get_container_url(e.AZURE_STORAGE_ACCOUNT_NAME, SourceContainer(e)),
     resultContainerUrl |-> get_container_url(e.AZURE_STORAGE_ACCOUNT_NAME, ResultContainer(e)),
     overwriteExisting |-> TRUE,
     hasPrefix |-> FALSE]

NoBody ==
    [containerUrl |-> <<>>, resultContainerUrl |-> <<>>,
     overwriteExisting |-> FALSE, hasPrefix |-> FALSE]

PostOf(e) ==
    [url |-> <<ConfEndpoint(e), "/documentintelligence/documentModels/",
               "prebuilt-invoice", ":analyzeBatch?api-version=", "2024-11-30">>,
     key |-> e.DOCINT_KEY,
     body |-> DocIntBody(e)]

NoRes == [kind |-> "none", status |-> 0, body |-> <<>>,
          opLoc |-> [present |-> FALSE, value |-> <<>>]]

NoReply == [kind |-> "none", status |-> 0, ok |-> FALSE, excerpt |-> <<>>,
            operationLocation |-> <<>>, resultId |-> <<>>,
            sourceContainer |-> "", resultContainer |-> "", docIntRequest |-> NoBody]

\* raise HTTPException(status, ...)
HttpError(kind, status, excerpt) ==
    [NoReply EXCEPT !.kind = kind, !.status = status, !.excerpt = excerpt]

\* res.headers.get("operation-location", "")
HeaderOr(h) == IF h.present THEN h.value ELSE <<>>

\* lines 161-182: what the handler returns for the response it awaited
ReplyFor(e, r) ==
    IF r.kind = "error" THEN HttpError("exception", 500, <<>>)
    ELSE IF r.status < 200 \/ r.status >= 300
    THEN HttpError("upstream", r.status, ErrorExcerpt(r.body))
    ELSE [kind |-> "ok", status |-> 200, ok |-> TRUE, excerpt |-> <<>>,
          operationLocation |-> HeaderOr(r.opLoc),
          resultId |-> extract_result_id(HeaderOr(r.opLoc)),
          sourceContainer |-> SourceContainer(e),
          resultContainer |-> ResultContainer(e),
          docIntRequest |-> DocIntBody(e)]

\* inputs of the batch-start model
UrlAlphabet == {"a", ":", "/", "?", "#", "["}

ExampleHeaders ==
    { <<"h","t","t","p","s",":","/","/","h","/","a","n","a","l","y","z","e",
        "R","e","s","u","l","t","s","/","a","b","c","1","2","3">>,
      <<"h","t","t","p","s",":","/","/","h","/","r","/","a","b","c","1","2","3","/">>,
      <<"h","t","t","p","s",":","/","/","h","/","r","/","a","b","c",";","v","?","x","=","1","/","2">>,
      <<"g","a","r","b","a","g","e">>,
      <<" ","h","t","t","p",":","/","/","[","/","x">> }

HeaderValues == SeqsUpTo(UrlAlphabet, MaxUrlLen) \cup ExampleHeaders

OpLocHeaders ==
    {[present |-> FALSE, value |-> <<>>]} \cup
    {[present |-> TRUE, value |-> v] : v \in HeaderValues}

\* a body of n characters, x and y alternating
BodyOf(n) == [i \in 1..n |-> IF i % 2 = 1 THEN "x" ELSE "y"]

Bodies ==
    {BodyOf(n) : n \in {0, 3} \cup (ExcerptLen..(ExcerptLen + MaxExtra))} \cup
    {<<"FF">> \o BodyOf(ExcerptLen + 1)}

Statuses == {199, 200, 299, 300, 500}

\* what the extraction service can answer: every status with every body and
\* every header value, a long body or a long header list at a time
FewHeaders ==
    {[present |-> FALSE, value |-> <<>>],
     [present |-> TRUE, value |-> <<"/", "a">>]}

ShortBodies == {BodyOf(0), BodyOf(3)}

Responses ==
    {[kind |-> "response", status |-> s, body |-> b, opLoc |-> h] :
        s \in Statuses, b \in Bodies, h \in FewHeaders}
    \cup {[kind |-> "response", status |-> s, body |-> b, opLoc |-> h] :
        s \in Statuses, b \in ShortBodies, h \in OpLocHeaders}
    \cup {[kind |-> "error", status |-> 0, body |-> <<>>,
           opLoc |-> [present |-> FALSE, value |-> <<>>]]}

PrefixPattern == Letters \cup Digits \cup {"_", "-", "/"}

Prefixes ==
    { [given |-> FALSE, value |-> <<>>],
      [given |-> TRUE, value |-> <<"2","0","2","4","/","r","u","n","-","1">>],
      [given |-> TRUE, value |-> <<"a"," ","b">>] }

S3cret == <<"s", "3", "c", "r", "e", "t">>

HeaderSecrets == {<<>>, S3cret, <<"g", "u", "e", "s", "s">>, <<"s", "U+00E9">>}

Requests == [secret : HeaderSecrets, prefix : Prefixes]

NoReq == [secret |-> <<>>, prefix |-> [given |-> FALSE, value |-> <<>>]]

DefaultEnv ==
    [FLOW_SHARED_SECRET |-> S3cret, DOCINT_ENDPOINT |-> <<"e">>, DOCINT_KEY |-> "key",
     AZURE_STORAGE_ACCOUNT_NAME |-> "acct", AZURE_STORAGE_SOURCE_CONTAINER |-> "",
     AZURE_STORAGE_RESULT_CONTAINER |-> "", AZURE_STORAGE_CONNECTION_STRING |-> "conn"]

BatchEnvs ==
    [FLOW_SHARED_SECRET : {<<>>, S3cret, <<"s", "U+00E9">>},
     DOCINT_ENDPOINT : {<<>>, <<"/">>, <<"e", "/">>},
     DOCINT_KEY : {"", "key"},
     AZURE_STORAGE_ACCOUNT_NAME : {"", "acct"},
     AZURE_STORAGE_SOURCE_CONTAINER : {"", "in"},
     AZURE_STORAGE_RESULT_CONTAINER : {""},
     AZURE_STORAGE_CONNECTION_STRING : {"conn"}]

\* lines 110-159: a request arrives and the handler runs up to its await of
\* client.post, or fails before it (one call per run: calls share no state)
StartBatch(r) ==
    /\ bpc = "idle"
    /\ req' = r
    /\ res' = NoRes
    /\ LET auth == require_flow_secret(env, r)
       IN  IF auth # "pass"
           THEN /\ reply' = HttpError(auth, IF auth = "unauthorized" THEN 401 ELSE 500,
                                      <<>>)
                /\ posts' = <<>>
                /\ bpc' = "done"
           ELSE IF ConfigMissing(env)
           THEN /\ reply' = HttpError("config", 500, <<>>)
                /\ posts' = <<>>
                /\ bpc' = "done"
           ELSE /\ reply' = NoReply
                /\ posts' = <<PostOf(env)>>
                /\ bpc' = "awaiting"
    /\ UNCHANGED <<env, exportVars, uploadVars, acc>>

\* lines 159-182: client.post returns (or raises) and the handler finishes
FinishBatch(r) ==
    /\ bpc = "awaiting"
    /\ res' = r
    /\ reply' = ReplyFor(env, r)
    /\ bpc' = "done"
    /\ UNCHANGED <<env, req, posts, exportVars, uploadVars, acc>>

(***************************************************************************)
(* JSON values as json.loads returns them, tagged with their Python type.  *)
(* Numbers are integers: a confidence is in hundredths (0.9 is 90).        *)
(***************************************************************************)
Null == [t |-> "null"]
Str(s) == [t |-> "str", s |-> s]
Num(n) == [t |-> "num", n |-> n]
Bool(b) == [t |-> "bool", b |-> b]
List(l) == [t |-> "list", l |-> l]
Dict(d) == [t |-> "dict", d |-> d]
EmptyDict == [t |-> "dict", d |-> [k \in {} |-> Null]]
Raised == [t |-> "raised"]

\* bool(v)
Truthy(v) ==
    CASE v.t = "null" -> FALSE
      [] v.t = "str" -> v.s # ""
      [] v.t = "num" -> v.n # 0
      [] v.t = "bool" -> v.b
      [] v.t = "list" -> v.l # <<>>
      [] v.t = "dict" -> DOMAIN v.d # {}
      [] OTHER -> FALSE

\* v or default
Or(v, default) == IF Truthy(v) THEN v ELSE default

\* d.get(k) on a dict
DictGet(d, k) == IF k \in DOMAIN d.d THEN d.d[k] ELSE Null

(***************************************************************************)
(* The field accessors.  field.get on a value that is no dict raises       *)
(* AttributeError: the result is Raised.                                   *)
(***************************************************************************)
RECURSIVE safe_get(_, _, _)
safe_get(cur, keys, default) ==
    IF keys = <<>> THEN cur
    ELSE IF cur.t # "dict" \/ Head(keys) \notin DOMAIN cur.d THEN default
    ELSE safe_get(cur.d[Head(keys)], Tail(keys), default)

get_field(fields, field_name) ==
    IF fields.t # "dict" THEN EmptyDict
    ELSE LET v == DictGet(fields, field_name)
         IN  IF v.t = "dict" THEN v ELSE EmptyDict

\* isinstance(c, (int, float)) holds of a bool as well
get_confidence(field) ==
    IF field.t # "dict" THEN Raised
    ELSE LET c == DictGet(field, "confidence")
         IN  IF c.t \in {"num", "bool"} THEN c ELSE Null

get_value_string(field) ==
    IF field.t # "dict" THEN Raised ELSE Or(DictGet(field, "valueString"), Str(""))

get_value_date(field) ==
    IF field.t # "dict" THEN Raised ELSE Or(DictGet(field, "valueDate"), Str(""))

get_value_currency_amount(field) ==
    Or(safe_get(field, <<"valueCurrency", "amount">>, Str("")), Str(""))

get_value_currency_code(field) ==
    Or(safe_get(field, <<"valueCurrency", "currencyCode">>, Str("")), Str(""))

(***************************************************************************)
(* export_invoices_to_excel                                                *)
(***************************************************************************)
headers ==
    << "InvoiceId", "InvoiceId_confidence",
       "VendorAddressRecipient", "VendorAddressRecipient_confidence",
       "VendorTaxId", "VendorTaxId_confidence",
       "CustomerAddressRecipient", "CustomerAddressRecipient_confidence",
       "CustomerTaxId", "CustomerTaxId_confidence",
       "InvoiceDate", "InvoiceDate_confidence",
       "DueDate", "DueDate_confidence",
       "InvoiceTotal_amount", "InvoiceTotal_currencyCode", "InvoiceTotal_confidence",
       "SubTotal_amount", "SubTotal_currencyCode", "SubTotal_confidence",
       "TotalTax_amount", "TotalTax_currencyCode", "TotalTax_confidence" >>

\* value and confidence cells of a string field, a date field, a currency field
StringCells(f) == <<get_value_string(f), Or(get_confidence(f), Str(""))>>
DateCells(f) == <<get_value_date(f), Or(get_confidence(f), Str(""))>>
CurrencyCells(f) ==
    <<get_value_currency_amount(f), get_value_currency_code(f),
      Or(get_confidence(f), Str(""))>>

\* lines 242-281: the row of one document's fields
RowOf(fields) ==
    StringCells(get_field(fields, "InvoiceId"))
    \o StringCells(get_field(fields, "VendorAddressRecipient"))
    \o StringCells(get_field(fields, "VendorTaxId"))
    \o StringCells(get_field(fields, "CustomerAddressRecipient"))
    \o StringCells(get_field(fields, "CustomerTaxId"))
    \o DateCells(get_field(fields, "InvoiceDate"))
    \o DateCells(get_field(fields, "DueDate"))
    \o CurrencyCells(get_field(fields, "InvoiceTotal"))
    \o CurrencyCells(get_field(fields, "SubTotal"))
    \o CurrencyCells(get_field(fields, "TotalTax"))

\* blob.name.lower().endswith(".json")
EndsWithJson(name) ==
    /\ Len(name) >= 5
    /\ SubSeq(Lower(name), Len(name) - 4, Len(name)) = <<".", "j", "s", "o", "n">>

\* documents[0]: the first element of a list; of a str its first character;
\* a dict has no key 0 (KeyError) and a number cannot be indexed (TypeError)
FirstOf(documents) ==
    CASE documents.t = "list" -> documents.l[1]
      [] documents.t = "str" -> Str("c")
      [] OTHER -> Raised

\* lines 228-283 for one blob: skipped, a row, or an exception
ProcessBlob(blob) ==
    IF ~EndsWithJson(blob.name) THEN [kind |-> "skip", row |-> <<>>]
    ELSE IF ~blob.raw.valid THEN [kind |-> "raise", row |-> <<>>]
    ELSE LET documents == safe_get(blob.raw.json, <<"analyzeResult", "documents">>,
                                   List(<<>>))
         IN  IF ~Truthy(documents) THEN [kind |-> "skip", row |-> <<>>]
             ELSE LET first == FirstOf(documents)
                  IN  IF first.t # "dict" THEN [kind |-> "raise", row |-> <<>>]
                      ELSE [kind |-> "row",
                            row |-> RowOf(Or(DictGet(first, "fields"), EmptyDict))]

\* the for loop over container.list_blobs(): it ends at the first exception
RECURSIVE CollectRows(_, _)
CollectRows(blobs, rows) ==
    IF blobs = <<>> THEN [raised |-> FALSE, rows |-> rows]
    ELSE LET o == ProcessBlob(Head(blobs))
         IN  IF o.kind = "raise" THEN [raised |-> TRUE, rows |-> rows]
             ELSE CollectRows(Tail(blobs),
                              IF o.kind = "row" THEN Append(rows, o.row) ELSE rows)

\* ws.append(r): openpyxl takes strings, numbers and booleans as cell values
\* and raises ValueError for a list or a dict
Writable(row) == \A i \in 1..Len(row) : row[i].t \in {"str", "num", "bool"}

NoXReply == [kind |-> "none", status |-> 0, header |-> <<>>, rows |-> <<>>]

\* the whole handler, on the container content it lists
ExportReply(e, blobs) ==
    IF e.AZURE_STORAGE_CONNECTION_STRING = ""
    THEN [kind |-> "http_error", status |-> 500, header |-> <<>>, rows |-> <<>>]
    ELSE LET c == CollectRows(blobs, <<>>)
         IN  IF c.raised
             THEN [kind |-> "exception", status |-> 500, header |-> <<>>, rows |-> <<>>]
             ELSE IF c.rows = <<>>
             THEN [kind |-> "http_error", status |-> 404, header |-> <<>>, rows |-> <<>>]
             ELSE IF \E i \in 1..Len(c.rows) : ~Writable(c.rows[i])
             THEN [kind |-> "exception", status |-> 500, header |-> <<>>, rows |-> <<>>]
             ELSE [kind |-> "xlsx", status |-> 200, header |-> headers, rows |-> c.rows]

\* inputs of the export model: fields as the extraction service writes them
FieldInvoiceId ==
    Dict([valueString |-> Str("INV-1"), confidence |-> Num(95)])
FieldUnsure ==
    Dict([valueString |-> Str("INV-2"), confidence |-> Num(0)])
FieldDate ==
    Dict([valueDate |-> Str("2024-01-31"), confidence |-> Num(80)])
FieldTotal ==
    Dict([valueCurrency |-> Dict([amount |-> Num(100), currencyCode |-> Str("USD")]),
          confidence |-> Num(90)])
FieldZeroTax ==
    Dict([valueCurrency |-> Dict([amount |-> Num(0), currencyCode |-> Str("EUR")]),
          confidence |-> Num(99)])
FieldBadConfidence ==
    Dict([valueString |-> Str("HU123"), confidence |-> Str("high")])
FieldNumberAsString == Dict([valueString |-> Num(5)])
FieldListAsString == Dict([valueString |-> List(<<Str("a")>>)])
FieldBadCurrency == Dict([valueCurrency |-> Str("100 USD"), confidence |-> Num(50)])
FieldText(s) == Dict([valueString |-> Str(s), confidence |-> Num(70)])

FieldMaps ==
    { Dict([InvoiceId |-> FieldInvoiceId, InvoiceTotal |-> FieldTotal,
            InvoiceDate |-> FieldDate]),
      Dict([InvoiceId |-> FieldInvoiceId]),
      Dict([InvoiceId |-> FieldUnsure, TotalTax |-> FieldZeroTax]),
      Dict([A |-> FieldText("a1"), B |-> FieldText("b1")]),
      Dict([B |-> FieldText("b2"), C |-> FieldText("c2")]),
      Dict([InvoiceId |-> Str("not a mapping"), VendorTaxId |-> FieldBadConfidence,
            SubTotal |-> FieldBadCurrency, CustomerTaxId |-> FieldNumberAsString]),
      Dict([InvoiceId |-> FieldListAsString]),
      EmptyDict, Null, Num(5) }

ResultOf(documents) == Dict([analyzeResult |-> Dict([documents |-> documents])])

JsonBodies ==
    {ResultOf(List(<<Dict([fields |-> f])>>)) : f \in FieldMaps}
    \cup { ResultOf(List(<<EmptyDict>>)),
           ResultOf(List(<<Str("not a mapping")>>)),
           ResultOf(List(<<>>)),
           ResultOf(Null),
           ResultOf(Num(5)),
           ResultOf(Str("abc")),
           ResultOf(Dict([a |-> Num(1)])),
           Dict([analyzeResult |-> EmptyDict]),
           Dict([status |-> Str("failed")]),
           List(<<Num(1)>>) }

RawBodies ==
    {[valid |-> TRUE, json |-> j] : j \in JsonBodies}
    \cup {[valid |-> FALSE, json |-> Null]}

BlobNames ==
    { <<"r", "1", ".", "j", "s", "o", "n">>,
      <<"R", "2", ".", "J", "S", "O", "N">>,
      <<"n", ".", "p", "d", "f">>,
      <<"j", "s", "o", "n">> }

\* the extraction service writes one more result blob
WriteResult(name, raw) ==
    /\ Len(container) < MaxBlobs
    /\ \A i \in 1..Len(container) : container[i].name # name
    /\ container' = Append(container, [name |-> name, raw |-> raw])
    /\ xreply' = NoXReply
    /\ UNCHANGED <<batchVars, uploadVars, acc>>

\* GET /docint/export/excel on the blobs written so far
Export ==
    /\ xreply.kind = "none"
    /\ xreply' = ExportReply(env, container)
    /\ UNCHANGED <<batchVars, container, uploadVars, acc>>

(***************************************************************************)
(* upload_invoice                                                          *)
(***************************************************************************)
\* slugify_filename, line 23: name.split("\\")[-1].split("/")[-1]
BaseName(name) == LastPiece(LastPiece(name, "\\"), "/")

\* unicodedata.normalize("NFKD", c).encode("ascii", "ignore") of one character:
\* U+00E1 (a with acute) decomposes to "a" and a combining mark that is dropped,
\* U+20AC (euro sign) has no ASCII part
AsciiFold(c) ==
    CASE c = "U+00E1" -> <<"a">>
      [] c = "U+20AC" -> <<>>
      [] OTHER -> <<c>>

RECURSIVE NfkdAscii(_)
NfkdAscii(s) == IF s = <<>> THEN <<>> ELSE AsciiFold(Head(s)) \o NfkdAscii(Tail(s))

SafeChars == Letters \cup Digits \cup {".", "_", "-"}

\* re.sub(r"[^A-Za-z0-9._-]+", "_", s): each run of unsafe characters becomes one "_"
SubUnsafeRuns(s) ==
    LET m == [i \in 1..Len(s) |->
                 IF s[i] \in SafeChars THEN s[i]
                 ELSE IF i = 1 \/ s[i - 1] \in SafeChars THEN "_" ELSE ""]
    IN  SelectSeq(m, LAMBDA c : c # "")

\* re.sub(r"_+", "_", s)
SubUnderscoreRuns(s) ==
    LET m == [i \in 1..Len(s) |->
                 IF s[i] # "_" THEN s[i]
                 ELSE IF i = 1 \/ s[i - 1] # "_" THEN "_" ELSE ""]
    IN  SelectSeq(m, LAMBDA c : c # "")

slugify_filename(name) ==
    LET n1 == NfkdAscii(BaseName(name))
        n2 == SubUnderscoreRuns(SubUnsafeRuns(n1))
        n3 == LStrip(RStrip(n2, {".", "_", "-"}), {".", "_", "-"})
    IN  IF n3 = <<>> THEN <<"f", "i", "l", "e">> ELSE n3

\* base64.b64decode(s, validate=True) as CPython 3.11 implements it
B64Chars ==
    << "A", "B", "C", "D", "E", "F", "G", "H", "I", "J", "K", "L", "M", "N", "O", "P",
       "Q", "R", "S", "T", "U", "V", "W", "X", "Y", "Z", "a", "b", "c", "d", "e", "f",
       "g", "h", "i", "j", "k", "l", "m", "n", "o", "p", "q", "r", "s", "t", "u", "v",
       "w", "x", "y", "z", "0", "1", "2", "3", "4", "5", "6", "7", "8", "9", "+", "/" >>

B64Val(c) == (CHOOSE i \in 1..Len(B64Chars) : B64Chars[i] = c) - 1

\* re.fullmatch(b"[A-Za-z0-9+/]*={0,2}", s)
B64RegexOk(s) ==
    \E p \in 0..2 :
        /\ p <= Len(s)
        /\ \A i \in 1..(Len(s) - p) : \E j \in 1..Len(B64Chars) : B64Chars[j] = s[i]
        /\ \A i \in (Len(s) - p + 1)..Len(s) : s[i] = "="

\* binascii.a2b_base64(s, strict_mode=True) on d data characters and p pads
B64PaddingOk(d, p) ==
    \/ d = 0 /\ p = 0
    \/ d > 0 /\ d % 4 = 0
    \/ d % 4 = 2 /\ p = 2
    \/ d % 4 = 3 /\ p = 1

RECURSIVE B64Bytes(_)
B64Bytes(d) ==
    IF Len(d) >= 4
    THEN LET n == B64Val(d[1]) * 262144 + B64Val(d[2]) * 4096
                  + B64Val(d[3]) * 64 + B64Val(d[4])
         IN  <<n \div 65536, (n \div 256) % 256, n % 256>>
             \o B64Bytes(SubSeq(d, 5, Len(d)))
    ELSE IF Len(d) = 3
    THEN LET n == B64Val(d[1]) * 4096 + B64Val(d[2]) * 64 + B64Val(d[3])
         IN  <<n \div 1024, (n \div 4) % 256>>
    ELSE IF Len(d) = 2
    THEN <<(B64Val(d[1]) * 64 + B64Val(d[2])) \div 16>>
    ELSE <<>>

b64decode(s) ==
    LET d == SelectSeq(s, LAMBDA c : c # "=")
    IN  IF B64RegexOk(s) /\ B64PaddingOk(Len(d), Len(s) - Len(d))
        THEN [ok |-> TRUE, bytes |-> B64Bytes(d)]
        ELSE [ok |-> FALSE, bytes |-> <<>>]

\* lines 55-56: content_b64.split(",", 1)[1] when there is a comma
AfterComma(s) ==
    LET i == Find(s, ",", 1)
    IN  IF i = 0 THEN s ELSE SubSeq(s, i + 1, Len(s))

\* datetime.utcnow().strftime("%Y%m%d_%H%M%S")
Timestamps == <<"20240101_235959", "20240102_000000">>

\* upload_blob with overwrite=True: the bytes replace what the name held
BlobUploadOverwrite(s, name, bytes) ==
    [raised |-> FALSE,
     store |-> [n \in DOMAIN s \cup {name} |-> IF n = name THEN bytes ELSE s[n]]]

\* blob.upload_blob(file_bytes, overwrite=False): ResourceExistsError when the
\* name is taken, else the bytes are stored under the name
BlobUpload(s, name, bytes) ==
    IF name \in DOMAIN s
    THEN [raised |-> TRUE, store |-> s]
    ELSE [raised |-> FALSE,
          store |-> [n \in DOMAIN s \cup {name} |-> IF n = name THEN bytes ELSE s[n]]]

EmptyStore == [n \in {} |-> <<>>]
NoName == <<"", <<>>>>
NoUReply == [kind |-> "none", status |-> 0, ok |-> FALSE, blobName |-> NoName, size |-> 0]
NoUpload == [sent |-> FALSE, payload |-> <<>>, name |-> NoName,
             existed |-> FALSE, before |-> <<>>]

UploadError(kind, status) == [NoUReply EXCEPT !.kind = kind, !.status = status]

DefaultFileName == <<"i", "n", "v", "o", "i", "c", "e", ".", "p", "d", "f">>

\* the steps of the handler that read the request alone (lines 43-67)
ParseUpload(data) ==
    LET file_name == IF data.fileName = <<>> THEN DefaultFileName ELSE data.fileName
    IN  [missing |-> data.contentBase64 = <<>>,
         content_type |-> OrDefault(data.contentType, "application/pdf"),
         dec |-> b64decode(AfterComma(data.contentBase64)),
         safe_name |-> slugify_filename(file_name)]

\* the whole handler on a parsed request; a storage call that fails for another
\* reason than a taken name leaves through the same except clause as a missing
\* connection string
UploadResult(e, s, now, data, p) ==
    LET name == <<Timestamps[now], p.safe_name>>
        up == BlobUpload(s, name, p.dec.bytes)
        reached == [sent |-> TRUE, payload |-> data.contentBase64, name |-> name,
                    existed |-> name \in DOMAIN s,
                    before |-> IF name \in DOMAIN s THEN s[name] ELSE <<>>]
    IN  IF p.missing
        THEN [store |-> s, reply |-> UploadError("missing", 400), last |-> NoUpload]
        ELSE IF p.content_type # "application/pdf"
        THEN [store |-> s, reply |-> UploadError("media_type", 415), last |-> NoUpload]
        ELSE IF ~p.dec.ok
        THEN [store |-> s, reply |-> UploadError("base64", 400), last |-> NoUpload]
        ELSE IF e.AZURE_STORAGE_CONNECTION_STRING = ""
        THEN [store |-> s, reply |-> UploadError("storage", 500), last |-> NoUpload]
        ELSE IF up.raised
        THEN [store |-> s, reply |-> UploadError("exists", 500), last |-> reached]
        ELSE [store |-> up.store,
              reply |-> [kind |-> "ok", status |-> 200, ok |-> TRUE,
                         blobName |-> name, size |-> Len(p.dec.bytes)],
              last |-> reached]

\* inputs of the upload model
PayloadAlphabet == {"R", "=", ","}

ExamplePayloads ==
    { <<"J", "V", "B", "E", "R", "i", "0", "x">>,
      <<"d", "a", "t", "a", ":", "a", "/", "p", "d", "f", ";", "b", "a", "s", "e",
        "6", "4", ",", "R", "R", "=", "=">>,
      <<"R", "R", " ", "=">> }

Payloads == SeqsUpTo(PayloadAlphabet, MaxB64Len) \cup ExamplePayloads

FileNames ==
    { <<"a", ".", "p", "d", "f">>,
      <<"C", ":", "\\", "x", " ", "y", "\\", "U+00E1", ".", "p", "d", "f">>,
      <<".", ".", "/", "U+20AC", " ", "_", "-">> }

UploadRequests ==
    [fileName : FileNames, contentType : {"application/pdf"}, contentBase64 : Payloads]
    \cup [fileName : {<<>>}, contentType : {"text/plain"},
          contentBase64 : {<<>>, <<"R", "R", "=", "=">>}]
    \cup [fileName : {<<"a", ".", "p", "d", "f">>}, contentType : {""},
          contentBase64 : {<<"R", "R", "R", "=">>}]

\* every request of the model with its parsed form
Parsed == [d \in UploadRequests |-> ParseUpload(d)]

\* POST /upload/invoice
Upload(data) ==
    /\ upc = "idle"
    /\ \E r \in {UploadResult(env, store, clock, data, Parsed[data])} :
           /\ Cardinality(DOMAIN r.store) <= MaxUploads
           /\ store' = r.store
           /\ ureply' = r.reply
           /\ lastUpload' = r.last
    /\ upc' = "replied"
    /\ UNCHANGED <<env, req, bpc, posts, res, reply, exportVars, clock, acc>>

\* the reply is sent and the next request can be served
UploadDone ==
    /\ upc = "replied"
    /\ upc' = "idle"
    /\ ureply' = NoUReply
    /\ lastUpload' = NoUpload
    /\ UNCHANGED <<env, req, bpc, posts, res, reply, exportVars, store, clock, acc>>

\* a second passes
Tick ==
    /\ clock < Len(Timestamps)
    /\ clock' = clock + 1
    /\ UNCHANGED <<env, req, bpc, posts, res, reply, exportVars,
                   store, upc, lastUpload, ureply, acc>>

(***************************************************************************)
(* Calls of the field accessors on field mappings of every shape.          *)
(***************************************************************************)
SlotValues ==
    { Null, Str(""), Str("x"), Num(0), Num(5), Bool(TRUE), List(<<Str("x")>>),
      EmptyDict, Dict([amount |-> Num(7), currencyCode |-> Str("HUF")]),
      Dict([amount |-> Str("seven"), currencyCode |-> Num(3)]) }

FieldKeys == {"valueString", "valueDate", "valueCurrency", "confidence"}

\* every mapping with at most two of the keys a field can carry
FieldShapes ==
    {EmptyDict}
    \cup {Dict([k \in K |-> v]) : K \in {{a} : a \in FieldKeys}, v \in SlotValues}
    \cup {Dict([valueCurrency |-> v, confidence |-> w]) : v \in SlotValues, w \in SlotValues}

FieldsShapes ==
    {Null, Str("x"), List(<<>>)} \cup {Dict([InvoiceId |-> v]) : v \in SlotValues}
    \cup {Dict([Other |-> FieldInvoiceId])}

NoAcc == [fn |-> "none", arg |-> Null, out |-> Null]

Call(fn, arg, out) ==
    /\ acc' = [fn |-> fn, arg |-> arg, out |-> out]
    /\ UNCHANGED <<batchVars, exportVars, uploadVars>>

CallGetField == \E f \in FieldsShapes : Call("get_field", f, get_field(f, "InvoiceId"))
CallGetConfidence == \E f \in FieldShapes : Call("get_confidence", f, get_confidence(f))
CallGetValueString == \E f \in FieldShapes : Call("get_value_string", f, get_value_string(f))
CallGetValueDate == \E f \in FieldShapes : Call("get_value_date", f, get_value_date(f))
CallGetValueCurrencyAmount ==
    \E f \in FieldShapes :
        Call("get_value_currency_amount", f, get_value_currency_amount(f))
CallGetValueCurrencyCode ==
    \E f \in FieldShapes :
        Call("get_value_currency_code", f, get_value_currency_code(f))

(***************************************************************************)
(* Specifications: the endpoints share no state, each is run on its own.   *)
(***************************************************************************)
InitBatchVars ==
    /\ req = NoReq /\ bpc = "idle" /\ posts = <<>> /\ res = NoRes /\ reply = NoReply
InitExportVars == container = <<>> /\ xreply = NoXReply
InitUploadVars ==
    /\ store = EmptyStore /\ clock = 1 /\ upc = "idle"
    /\ lastUpload = NoUpload /\ ureply = NoUReply

InitBatch ==
    /\ env \in BatchEnvs
    /\ InitBatchVars /\ InitExportVars /\ InitUploadVars /\ acc = NoAcc

NextBatch ==
    \/ bpc = "idle" /\ \E r \in Requests : StartBatch(r)
    \/ bpc = "awaiting" /\ \E r \in Responses : FinishBatch(r)

SpecBatch == InitBatch /\ [][NextBatch]_vars

StorageEnvs ==
    {DefaultEnv, [DefaultEnv EXCEPT !.AZURE_STORAGE_CONNECTION_STRING = ""]}

InitExport ==
    /\ env \in StorageEnvs
    /\ InitBatchVars /\ InitExportVars /\ InitUploadVars /\ acc = NoAcc

NextExport ==
    \/ \E n \in BlobNames, r \in RawBodies : WriteResult(n, r)
    \/ Export

SpecExport == InitExport /\ [][NextExport]_vars

InitUpload ==
    /\ env \in StorageEnvs
    /\ InitBatchVars /\ InitExportVars /\ InitUploadVars /\ acc = NoAcc

NextUpload ==
    \/ upc = "idle" /\ \E d \in UploadRequests : Upload(d)
    \/ UploadDone
    \/ Tick

SpecUpload == InitUpload /\ [][NextUpload]_vars

InitAccessors ==
    /\ env = DefaultEnv
    /\ InitBatchVars /\ InitExportVars /\ InitUploadVars /\ acc = NoAcc

NextAccessors ==
    \/ CallGetField
    \/ CallGetConfidence
    \/ CallGetValueString
    \/ CallGetValueDate
    \/ CallGetValueCurrencyAmount
    \/ CallGetValueCurrencyCode

SpecAccessors == InitAccessors /\ [][NextAccessors]_vars

(***************************************************************************)
(* Properties of the batch-start endpoint (SpecBatch).                     *)
(***************************************************************************)
SecretMatches == env.FLOW_SHARED_SECRET # <<>> /\ req.secret = env.FLOW_SHARED_SECRET

SecretOk == SecretMatches /\ IsAscii(env.FLOW_SHARED_SECRET)

SettingsPresent ==
    /\ env.DOCINT_ENDPOINT # <<>>
    /\ env.DOCINT_KEY # ""
    /\ env.AZURE_STORAGE_ACCOUNT_NAME # ""

MatchesPrefixPattern(p) == p # <<>> /\ \A i \in 1..Len(p) : p[i] \in PrefixPattern

Success == bpc = "done" /\ res.kind = "response" /\ res.status \in 200..299

\* C1: a caller-supplied prefix matching [A-Za-z0-9_\-/]+ lets the submission
\* reach the outbound POST; any other non-empty caller-supplied prefix fails the
\* call with an input-validation error and no outbound call is made.
C1_PrefixValidated ==
    (bpc # "idle" /\ req.prefix.given /\ req.prefix.value # <<>>) =>
        IF MatchesPrefixPattern(req.prefix.value)
        THEN (SecretOk /\ ~ConfigMissing(env)) => posts # <<>>
        ELSE /\ posts = <<>>
             /\ (SecretOk /\ ~ConfigMissing(env)) =>
                    (bpc = "done" /\ reply.status \in {400, 422})

\* C2: the outbound POST happens only after the shared-secret check has passed
\* and endpoint, key and account name were found non-empty; a missing or wrong
\* x-flow-secret ends the call with 401, an unset server secret or a missing
\* setting with 500, and in those cases no outbound call is made.
C2_PostOnlyAfterChecks ==
    /\ posts # <<>> => SecretOk /\ SettingsPresent
    /\ (bpc # "idle" /\ env.FLOW_SHARED_SECRET # <<>> /\ ~SecretMatches) =>
           bpc = "done" /\ reply.status = 401 /\ ~reply.ok /\ posts = <<>>
    /\ (bpc # "idle" /\ (env.FLOW_SHARED_SECRET = <<>> \/ (SecretOk /\ ~SettingsPresent))) =>
           bpc = "done" /\ reply.status = 500 /\ ~reply.ok /\ posts = <<>>

\* C3: one call issues at most one POST; a response status outside 200..299
\* fails the call with exactly that status and the first 500 characters (at
\* most) of the decoded body; a status inside 200..299 reports ok = true.
C3_UpstreamError ==
    /\ Len(posts) <= 1
    /\ (bpc = "done" /\ res.kind = "response" /\ res.status \notin 200..299) =>
           LET text == SelectSeq(res.body, LAMBDA b : b # "FF")
           IN  /\ ~reply.ok
               /\ reply.status = res.status
               /\ Len(reply.excerpt) <= ExcerptLen
               /\ Len(reply.excerpt) <= Len(text)
               /\ Len(reply.excerpt) = ExcerptLen \/ Len(reply.excerpt) = Len(text)
               /\ \A i \in 1..Len(reply.excerpt) : reply.excerpt[i] = text[i]
    /\ Success => reply.ok

C3_LongBodyCut ==
    /\ bpc = "done" /\ res.kind = "response" /\ res.status = 500
    /\ Len(res.body) > ExcerptLen
    /\ Len(reply.excerpt) = ExcerptLen
    /\ Len(posts) = 1

ExampleResultId == <<"a", "b", "c", "1", "2", "3">>

ExampleLocation ==
    <<"h","t","t","p","s",":","/","/","h","/","a","n","a","l","y","z","e",
      "R","e","s","u","l","t","s","/","a","b","c","1","2","3">>

\* an absolute URL: "<letters>://<something>"
IsAbsoluteUrl(h) ==
    \E i \in 2..Len(h) :
        /\ \A k \in 1..(i - 1) : h[k] \in Letters
        /\ Len(h) >= i + 3
        /\ h[i] = ":" /\ h[i + 1] = "/" /\ h[i + 2] = "/"
        /\ h[i + 3] \notin {"/", "?", "#", "["}

\* C4 as stated: after a 2xx response the resultId is the last path segment of
\* the operation-location URL; when the header is missing or malformed the
\* resultId is the empty string and the call still reports success.
C4_AsStated ==
    Success =>
        /\ reply.ok
        /\ res.opLoc.value = ExampleLocation => reply.resultId = ExampleResultId
        /\ (~res.opLoc.present \/ ~IsAbsoluteUrl(res.opLoc.value)) => reply.resultId = <<>>

\* p is: something ending in "/" (or nothing), then id, then k slashes
SegmentBeforeSlashes(p, id, k) ==
    LET n == Len(p) - k
        start == n - Len(id)
    IN  /\ k <= Len(p)
        /\ \A i \in (n + 1)..Len(p) : p[i] = "/"
        /\ start >= 0
        /\ SubSeq(p, start + 1, n) = id
        /\ ~Contains(id, "/")
        /\ id = <<>> => n = 0
        /\ start > 0 => p[start] = "/"

\* C4, amended: after a 2xx response the call reports success and the resultId
\* is the last segment of the URL path once its trailing slashes are removed
\* (.../analyzeResults/abc123 gives abc123); it is the empty string when the
\* header is missing, when the URL parser rejects it, or when the path is
\* empty or only slashes.  A header that is no URL but parses yields its own
\* last segment.
C4_LastSegment ==
    Success =>
        /\ reply.ok
        /\ reply.operationLocation = HeaderOr(res.opLoc)
        /\ res.opLoc.value = ExampleLocation => reply.resultId = ExampleResultId
        /\ IF ~res.opLoc.present \/ UrlSplit(res.opLoc.value).raised
           THEN reply.resultId = <<>>
           ELSE \E k \in 0..Len(UrlPath(res.opLoc.value)) :
                    SegmentBeforeSlashes(UrlPath(res.opLoc.value), reply.resultId, k)

C4_TrailingSlashSeen ==
    /\ Success
    /\ res.opLoc.present
    /\ Len(res.opLoc.value) > 0
    /\ res.opLoc.value[Len(res.opLoc.value)] = "/"
    /\ reply.resultId = ExampleResultId

(***************************************************************************)
(* Properties of the export (SpecExport).                                  *)
(***************************************************************************)
Exported == xreply.kind # "none" /\ env.AZURE_STORAGE_CONNECTION_STRING # ""

\* the parsed body holds a non-empty documents list
HasDocuments(raw) ==
    /\ raw.valid
    /\ raw.json.t = "dict"
    /\ "analyzeResult" \in DOMAIN raw.json.d
    /\ raw.json.d.analyzeResult.t = "dict"
    /\ "documents" \in DOMAIN raw.json.d.analyzeResult.d
    /\ raw.json.d.analyzeResult.d.documents.t = "list"
    /\ raw.json.d.analyzeResult.d.documents.l # <<>>

FirstDocument(raw) == raw.json.d.analyzeResult.d.documents.l[1]

YieldsRow(blob) == EndsWithJson(blob.name) /\ HasDocuments(blob.raw)

\* the fields mapping of a result file (no mapping: no fields)
FieldsOf(blob) ==
    LET doc == FirstDocument(blob.raw)
    IN  IF doc.t = "dict" /\ "fields" \in DOMAIN doc.d /\ doc.d.fields.t = "dict"
        THEN doc.d.fields
        ELSE EmptyDict

\* a result file as the service is meant to write it: the first document is a
\* mapping and every cell value of its fields is a scalar
WellFormed(blob) ==
    /\ YieldsRow(blob)
    /\ FirstDocument(blob.raw).t = "dict"
    /\ Writable(RowOf(FieldsOf(blob)))

\* C5: the export returns a spreadsheet if and only if at least one .json blob
\* yields a row; with zero rows (no blobs, no .json blobs, only .json blobs
\* without a non-empty documents list) it fails with 404 and never returns an
\* empty spreadsheet.
C5_SpreadsheetIffRows ==
    Exported =>
        /\ (xreply.kind = "xlsx") <=> (\E i \in 1..Len(container) : YieldsRow(container[i]))
        /\ (\A i \in 1..Len(container) : ~YieldsRow(container[i])) => xreply.status = 404
        /\ xreply.kind = "xlsx" => xreply.rows # <<>>

\* C6: one malformed or schema-drifted result file is skipped or defaulted
\* without failing the export: every other well-formed result file still
\* contributes its row to the returned spreadsheet.
C6_BadFileSkipped ==
    (Exported /\ \E i \in 1..Len(container) : WellFormed(container[i])) =>
        /\ xreply.kind = "xlsx"
        /\ Len(xreply.rows) >= Cardinality({i \in 1..Len(container) : WellFormed(container[i])})

Empty == Str("")

\* the value at a path of keys, when every step is there
Extracted(v, path) ==
    IF Len(path) = 1
    THEN IF v.t = "dict" /\ path[1] \in DOMAIN v.d THEN v.d[path[1]] ELSE Empty
    ELSE IF v.t = "dict" /\ path[1] \in DOMAIN v.d /\ v.d[path[1]].t = "dict"
              /\ path[2] \in DOMAIN v.d[path[1]].d
         THEN v.d[path[1]].d[path[2]]
         ELSE Empty

NumericConfidence(f) ==
    IF "confidence" \in DOMAIN f.d /\ f.d.confidence.t = "num" THEN f.d.confidence ELSE Empty

\* the cells the statement gives a field of the schema
StatedCells(fields, name, kind) ==
    IF name \notin DOMAIN fields.d \/ fields.d[name].t # "dict"
    THEN IF kind = "currency" THEN <<Empty, Empty, Empty>> ELSE <<Empty, Empty>>
    ELSE LET f == fields.d[name]
         IN  CASE kind = "string" -> <<Extracted(f, <<"valueString">>), NumericConfidence(f)>>
               [] kind = "date" -> <<Extracted(f, <<"valueDate">>), NumericConfidence(f)>>
               [] OTHER -> <<Extracted(f, <<"valueCurrency", "amount">>),
                             Extracted(f, <<"valueCurrency", "currencyCode">>),
                             NumericConfidence(f)>>

StatedRow(fields) ==
    StatedCells(fields, "InvoiceId", "string")
    \o StatedCells(fields, "VendorAddressRecipient", "string")
    \o StatedCells(fields, "VendorTaxId", "string")
    \o StatedCells(fields, "CustomerAddressRecipient", "string")
    \o StatedCells(fields, "CustomerTaxId", "string")
    \o StatedCells(fields, "InvoiceDate", "date")
    \o StatedCells(fields, "DueDate", "date")
    \o StatedCells(fields, "InvoiceTotal", "currency")
    \o StatedCells(fields, "SubTotal", "currency")
    \o StatedCells(fields, "TotalTax", "currency")

RowFiles == SelectSeq(container, YieldsRow)

\* C7: the fixed-schema export emits, for each result file with a non-empty
\* documents list, one row in enumeration order whose 23 cells line up with
\* the 23 headers: a present field's value cell equals the extracted value and
\* its confidence cell the numeric confidence; a missing field's cells are empty.
C7_FixedSchemaRows ==
    (Exported /\ xreply.kind = "xlsx") =>
        /\ Len(xreply.header) = 23
        /\ Len(xreply.rows) = Len(RowFiles)
        /\ \A k \in 1..Len(RowFiles) :
               /\ k <= Len(xreply.rows)
               /\ Len(xreply.rows[k]) = 23
               /\ xreply.rows[k] = StatedRow(FieldsOf(RowFiles[k]))

\* the field names of the model in lexical (code point) order
LexicalOrder ==
    << "A", "B", "C", "CustomerTaxId", "InvoiceDate", "InvoiceId", "InvoiceTotal",
       "SubTotal", "TotalTax", "VendorTaxId" >>

SortedNames(S) == SelectSeq(LexicalOrder, LAMBDA n : n \in S)

\* C8: in the dynamic-schema export the header row is the lexically sorted
\* union of the field names present in any document ({A,B} and {B,C} give
\* [A,B,C]) and each row holds an empty cell for every column its document lacks.
C8_DynamicHeader ==
    (Exported /\ xreply.kind = "xlsx") =>
        /\ xreply.header =
               SortedNames(UNION {DOMAIN FieldsOf(RowFiles[k]).d : k \in 1..Len(RowFiles)})
        /\ \A k \in 1..Len(xreply.rows) :
               /\ Len(xreply.rows[k]) = Len(xreply.header)
               /\ k <= Len(RowFiles)
               /\ \A c \in 1..Len(xreply.header) :
                      xreply.header[c] \notin DOMAIN FieldsOf(RowFiles[k]).d
                          => (c <= Len(xreply.rows[k]) /\ xreply.rows[k][c] = Empty)

(***************************************************************************)
(* Properties of the upload (SpecUpload).                                  *)
(***************************************************************************)
\* bit m (from 1) of the bit string that the data characters spell, six bits each
DataBit(d, m) == (B64Val(d[(m - 1) \div 6 + 1]) \div (2 ^ (5 - ((m - 1) % 6)))) % 2

\* the bytes that the base64 text after "<media type>," spells: its bit string
\* cut into whole bytes
SpelledBytes(payload) ==
    LET d == SelectSeq(AfterComma(payload), LAMBDA c : c # "=")
    IN  [j \in 1..((6 * Len(d)) \div 8) |->
            128 * DataBit(d, 8 * j - 7) + 64 * DataBit(d, 8 * j - 6)
            + 32 * DataBit(d, 8 * j - 5) + 16 * DataBit(d, 8 * j - 4)
            + 8 * DataBit(d, 8 * j - 3) + 4 * DataBit(d, 8 * j - 2)
            + 2 * DataBit(d, 8 * j - 1) + DataBit(d, 8 * j)]

UploadStored ==
    (upc = "replied" /\ ureply.ok) =>
        /\ lastUpload.sent /\ ~lastUpload.existed
        /\ ureply.blobName = lastUpload.name
        /\ ureply.blobName \in DOMAIN store
        /\ store[ureply.blobName] = SpelledBytes(lastUpload.payload)
        /\ ureply.size = Len(store[ureply.blobName])

UploadRefused ==
    (upc = "replied" /\ lastUpload.sent /\ lastUpload.existed) =>
        /\ ~ureply.ok
        /\ ureply.status >= 400
        /\ store[lastUpload.name] = lastUpload.before

\* C9: after any sequence of uploads, two of them with the same
\* timestamp-prefixed slug-sanitized name included, the content of an existing
\* blob is never replaced: an upload to an existing name fails with an error
\* and leaves the stored bytes unchanged, and a successful upload stores
\* exactly the base64-decoded payload under the returned blobName.
C9_NeverOverwrites ==
    /\ [](UploadStored /\ UploadRefused)
    /\ [][\A n \in DOMAIN store : n \in DOMAIN store' /\ store'[n] = store[n]]_vars

C9_SecondUploadRefused ==
    /\ upc = "replied"
    /\ ureply.kind = "exists"
    /\ lastUpload.existed
    /\ SpelledBytes(lastUpload.payload) # lastUpload.before
    /\ store[lastUpload.name] = lastUpload.before

(***************************************************************************)
(* Properties of the field accessors (SpecAccessors).                      *)
(***************************************************************************)
\* C10: each accessor is total over every shape of field mapping: with a
\* missing key or a value of the wrong type it returns its default (empty
\* mapping, empty string, no value) and never raises or returns a value of
\* another type.
C10_AccessorsTotal ==
    /\ acc.out.t # "raised"
    /\ acc.fn = "get_field" => acc.out.t = "dict"
    /\ acc.fn \in {"get_value_string", "get_value_date", "get_value_currency_code"}
           => acc.out.t = "str"
    /\ acc.fn = "get_value_currency_amount" => (acc.out.t = "num" \/ acc.out = Empty)
    /\ acc.fn = "get_confidence" => acc.out.t \in {"num", "bool", "null"}

====
